---- MODULE Spec2Model ----
(***************************************************************************)
(* Model of the rate-limited chunk-dispatch pipeline of the SEC filing     *)
(* analysis backend: the RateLimiter (controllers/rate_limiter.py), its    *)
(* text chunker, and the dispatcher loop of controllers/document_analyzer. *)
(*                                                                         *)
(* Scaling.  Token quantities and the window are scaled down so that the   *)
(* budget is exercised by short texts and short runs: the limiter built at *)
(* document_analyzer.py:13-17 (6000 tokens per minute, 4000 per request,   *)
(* 1000 reserved) keeps its 6 : 4 : 1 proportions, and the 60-second       *)
(* window is Window clock ticks of one second each.                        *)
(*                                                                         *)
(* Text.  A string is a sequence of one-character strings over Chars.      *)
(* Every character other than " " and "." is a letter and stands for a     *)
(* word piece that the encoder maps to one token.                          *)
(***************************************************************************)
EXTENDS Integers, Sequences, FiniteSets, TLC

\* ------------------------------------------------------------------ bounds
MaxLen == 7            \* longest input text given to the chunker
SpaceMerge == 2        \* spaces the encoder merges into one whitespace token
NumRequests == 2       \* analysis requests in flight
MaxChunks == 2         \* chunks dispatched by all the requests together
MaxChunkTokens == 7    \* largest count_tokens(chunk) of a dispatched chunk
MaxNodes == 3          \* text nodes of a document given to the extractor

\* ------------------------------------------------------- program constants
TokensPerMinute == 6       \* tokens_per_minute
MaxTokensPerRequest == 4   \* max_tokens_per_request
ReservedTokens == 1        \* reserved_tokens
Window == 3                \* timedelta(minutes=1)
PromptTokens == 1          \* count_tokens(system_prompt)
ParseMaxTokens == 2        \* max_tokens of parse_sec_document

Chars == {"a", " ", "."}

Max(a, b) == IF a >= b THEN a ELSE b

\* The per-request budget every size check of the limiter compares with.
Budget == MaxTokensPerRequest - ReservedTokens

\* ---------------------------------------------------------------- strings
Requests == 1..NumRequests

RECURSIVE TextsOfLen(_)
TextsOfLen(n) ==
    IF n = 0 THEN {<<>>}
    ELSE {Append(t, c) : t \in TextsOfLen(n - 1), c \in Chars}

Texts == UNION {TextsOfLen(n) : n \in 0..MaxLen}

\* " " * n
Spaces(n) == [i \in 1..n |-> " "]

\* Last index of the run of character c that starts at index i of s.
RECURSIVE RunEnd(_, _, _)
RunEnd(s, i, c) ==
    IF i < Len(s) /\ s[i + 1] = c THEN RunEnd(s, i + 1, c) ELSE i

\* Tokens of a whitespace piece of k spaces.
SpaceCost(k) == (k + SpaceMerge - 1) \div SpaceMerge

\* len(encoding.encode(s[i:])): the encoder first cuts the text into pieces
\* (a word piece with at most one leading space, a run of punctuation with at
\* most one leading space, a run of whitespace that leaves its last space to
\* the piece that follows), then encodes each piece.
RECURSIVE Encode(_, _)
Encode(s, i) ==
    IF i > Len(s) THEN 0
    ELSE IF s[i] \notin {" ", "."} THEN 1 + Encode(s, i + 1)
    ELSE IF s[i] = "." THEN 1 + Encode(s, RunEnd(s, i, ".") + 1)
    ELSE LET j == RunEnd(s, i, " ")
             k == j - i + 1
         IN  IF j = Len(s) THEN SpaceCost(k)
             ELSE IF s[j + 1] = "."
                  THEN SpaceCost(k - 1) + 1 + Encode(s, RunEnd(s, j + 1, ".") + 1)
                  ELSE SpaceCost(k - 1) + 1 + Encode(s, j + 2)

count_tokens(text) == Encode(text, 1)

\* text.split('. ')
RECURSIVE SplitFrom(_, _, _)
SplitFrom(s, start, i) ==
    IF i >= Len(s) THEN <<SubSeq(s, start, Len(s))>>
    ELSE IF s[i] = "." /\ s[i + 1] = " "
         THEN <<SubSeq(s, start, i - 1)>> \o SplitFrom(s, i + 2, i + 2)
         ELSE SplitFrom(s, start, i + 1)

SplitSentences(text) == SplitFrom(text, 1, 1)

\* sentence.split(): the maximal runs of non-whitespace characters
RECURSIVE WordsFrom(_, _)
WordsFrom(s, i) ==
    IF i > Len(s) THEN <<>>
    ELSE IF s[i] = " " THEN WordsFrom(s, i + 1)
    ELSE LET E == {e \in i..Len(s) : \A k \in i..e : s[k] # " "}
             j == CHOOSE e \in E : \A f \in E : f <= e
         IN  <<SubSeq(s, i, j)>> \o WordsFrom(s, j + 1)

SplitWords(sentence) == WordsFrom(sentence, 1)

\* sep.join(parts)
RECURSIVE Join(_, _)
Join(parts, sep) ==
    IF Len(parts) = 0 THEN <<>>
    ELSE IF Len(parts) = 1 THEN parts[1]
    ELSE parts[1] \o sep \o Join(Tail(parts), sep)

\* The inner loop of split_text_into_chunks over the words of a sentence
\* that is too large on its own: st = <<chunks, current_words,
\* current_word_tokens>>.
RECURSIVE WordLoop(_, _, _)
WordLoop(words, i, st) ==
    IF i > Len(words)
    THEN IF Len(st[2]) > 0 THEN Append(st[1], Join(st[2], <<" ">>)) ELSE st[1]
    ELSE LET word == words[i]
             word_tokens == count_tokens(word)
         IN  IF st[3] + word_tokens > Budget
             THEN WordLoop(words, i + 1,
                    << IF Len(st[2]) > 0
                       THEN Append(st[1], Join(st[2], <<" ">>)) ELSE st[1],
                       <<word>>, word_tokens >>)
             ELSE WordLoop(words, i + 1,
                    << st[1], Append(st[2], word), st[3] + word_tokens >>)

\* '. '.join(current_chunk) + '.'
CloseChunk(current_chunk) == Join(current_chunk, <<".", " ">>) \o <<".">>

\* The outer loop of split_text_into_chunks over the sentences:
\* st = <<chunks, current_chunk, current_tokens>>.
RECURSIVE SentenceLoop(_, _, _)
SentenceLoop(sentences, i, st) ==
    IF i > Len(sentences)
    THEN IF Len(st[2]) > 0 THEN Append(st[1], CloseChunk(st[2])) ELSE st[1]
    ELSE LET sentence == sentences[i]
             sentence_tokens == count_tokens(sentence)
         IN  IF sentence_tokens > Budget
             THEN SentenceLoop(sentences, i + 1,
                    << WordLoop(SplitWords(sentence), 1, <<st[1], <<>>, 0>>),
                       st[2], st[3] >>)
             ELSE IF st[3] + sentence_tokens > Budget
             THEN SentenceLoop(sentences, i + 1,
                    << IF Len(st[2]) > 0
                       THEN Append(st[1], CloseChunk(st[2])) ELSE st[1],
                       <<sentence>>, sentence_tokens >>)
             ELSE SentenceLoop(sentences, i + 1,
                    << st[1], Append(st[2], sentence), st[3] + sentence_tokens >>)

split_text_into_chunks(t) == SentenceLoop(SplitSentences(t), 1, <<<<>>, <<>>, 0>>)

\* ------------------------------------------------------------------ state
VARIABLES
    text,               \* the text handed to split_text_into_chunks
    chunks,             \* the list it returned
    cpc,                \* "input" before the call, "split" after it
    token_usage,        \* RateLimiter.token_usage: records [age, tokens],
                        \* age = now - timestamp in seconds, capped above
                        \* the window
    last_request_age,   \* now - last_request_time, capped at one second
    pc,                 \* per request: where its dispatch stands
    remaining,          \* per request: chunks still to dispatch
    chunkTok,           \* per request: count_tokens(chunk) of the chunk in hand
    availSeen,          \* per request: what get_available_tokens last returned
    sleepLeft,          \* per request: seconds of time.sleep left
    completed,          \* per request: completion calls that have returned
    doc,                \* the document given to parse_sec_document: a
                        \* sequence of parent elements, each a sequence of
                        \* child elements holding one text node
    labels,             \* sections_to_extract
    ppc,                \* "input" before parse_sec_document, "parsed" after
    walk,               \* what the walk over the text nodes left behind
    result,             \* the OrderedDict it returned: <<[key, value], ...>>
    form_type,          \* analyze_document_content's form_type
    sections,           \* its sections: <<[key, value], ...>>, in dict order
    dpc,                \* where the dispatch stands
    group,              \* index of the group in section_groups
    gchunks,            \* chunks of the group in hand
    idx,                \* index in gchunks of the chunk in hand
    chunk_analyses,     \* results of the group in hand
    analyses,           \* the list the dispatch returns
    calls,              \* history: the calls the dispatch made, in order
    now,                \* the clock of the limiter used on its own, in seconds
    recorded,           \* history: its record_token_usage calls, [time, tokens]
    answer,             \* what its last can_make_request call returned
    pruned,             \* per request: the list get_available_tokens has
                        \* filtered and not yet assigned to token_usage
    config,             \* the arguments a limiter was constructed with
    required,           \* wait_if_needed's required_tokens
    wpc                 \* where that wait_if_needed call stands

parseVars == <<doc, labels, ppc, walk, result>>

dispVars == <<form_type, sections, dpc, group, gchunks, idx, chunk_analyses,
              analyses, calls>>

apiVars == <<now, recorded, answer>>

ledgerVars == <<pruned>>

waitVars == <<config, required, wpc>>

\* The variables of the components a specification leaves alone.
otherVars == <<parseVars, dispVars, apiVars, ledgerVars, waitVars>>

vars == <<text, chunks, cpc, token_usage, last_request_age, pc, remaining,
          chunkTok, availSeen, sleepLeft, completed, parseVars, dispVars,
          apiVars, ledgerVars, waitVars>>

chunkVars == <<text, chunks, cpc>>
limiterVars == <<token_usage, last_request_age, pc, remaining, chunkTok,
                 availSeen, sleepLeft, completed>>

\* RateLimiter.__init__ and the requests before they are dispatched.
InitLimiter ==
    /\ token_usage = <<>>
    /\ last_request_age = 0
    /\ pc = [r \in Requests |-> "pending"]
    /\ remaining = [r \in Requests |-> 0]
    /\ chunkTok = [r \in Requests |-> 0]
    /\ availSeen = [r \in Requests |-> TokensPerMinute]
    /\ sleepLeft = [r \in Requests |-> 0]
    /\ completed = [r \in Requests |-> 0]

\* No document has been given to the section extractor.
IdleParse ==
    /\ doc = <<>>
    /\ labels = <<>>
    /\ ppc = "input"
    /\ walk = <<>>
    /\ result = <<>>

\* No limiter has been constructed for a wait_if_needed call of its own.
IdleWait ==
    /\ config = <<>>
    /\ required = 0
    /\ wpc = "idle"

\* No get_available_tokens call is between its filter and its assignment.
IdleLedger == pruned = [r \in Requests |-> <<>>]

\* The limiter has not been used on its own.
IdleApi ==
    /\ now = 0
    /\ recorded = <<>>
    /\ answer = <<>>

\* analyze_document_content has not been called.
IdleDispatch ==
    /\ form_type = ""
    /\ sections = <<>>
    /\ dpc = "idle"
    /\ group = 0
    /\ gchunks = <<>>
    /\ idx = 0
    /\ chunk_analyses = <<>>
    /\ analyses = <<>>
    /\ calls = <<>>

\* No text has been given to the chunker.
IdleChunk ==
    /\ text = <<>>
    /\ chunks = <<>>
    /\ cpc = "input"

\* ------------------------------------------------- chunker specification
InitChunk ==
    /\ text \in Texts
    /\ chunks = <<>>
    /\ cpc = "input"
    /\ InitLimiter
    /\ IdleParse
    /\ IdleDispatch
    /\ IdleApi
    /\ IdleLedger
    /\ IdleWait

\* chunks = rate_limiter.split_text_into_chunks(content)
SplitText ==
    /\ cpc = "input"
    /\ chunks' = split_text_into_chunks(text)
    /\ cpc' = "split"
    /\ UNCHANGED <<text, limiterVars, otherVars>>

NextChunk == SplitText

SpecChunk == InitChunk /\ [][NextChunk]_vars

\* ------------------------------------------------------------ the limiter
RECURSIVE SumTokens(_)
SumTokens(usage) ==
    IF Len(usage) = 0 THEN 0 ELSE Head(usage).tokens + SumTokens(Tail(usage))

\* Variant of IsRecent: keeps a record aged exactly one window (>=).
IsRecentInclusive(u) == u.age <= Window

\* usage['timestamp'] > minute_ago, with minute_ago = now - Window
IsRecent(u) == u.age < Window

\* Variant of AvailableTokens: no record is ever removed.
AvailableTokensNoPrune(tpm, usage) ==
    [usage |-> usage, available |-> Max(0, tpm - SumTokens(usage))]

\* get_available_tokens of a limiter built with tokens_per_minute = tpm: the
\* pruned list it stores and the value it returns
AvailableTokens(tpm, usage) ==
    LET kept == SelectSeq(usage, IsRecent)
    IN  [usage |-> kept, available |-> Max(0, tpm - SumTokens(kept))]

\* get_available_tokens of the dispatcher's limiter
GetAvailableTokens(usage) == AvailableTokens(TokensPerMinute, usage)

\* Variant of CanMakeRequest: the size test against the budget is left out.
CanMakeRequestNoSizeTest(probe, usage, seen) ==
    LET tokens == count_tokens(probe)
        g == GetAvailableTokens(usage)
    IN  [result |-> tokens <= g.available, usage |-> g.usage,
         seen |-> g.available]

\* can_make_request(text): `and` evaluates get_available_tokens only when the
\* size test passed. seen is the value get_available_tokens returned, or the
\* caller's previous one when it was not called.
CanMakeRequest(probe, usage, seen) ==
    LET tokens == count_tokens(probe)
    IN  IF tokens <= Budget
        THEN LET g == GetAvailableTokens(usage)
             IN  [result |-> tokens <= g.available, usage |-> g.usage,
                  seen |-> g.available]
        ELSE [result |-> FALSE, usage |-> usage, seen |-> seen]

\* record_token_usage(tokens)
RecordTokenUsage(usage, tokens) == Append(usage, [age |-> 0, tokens |-> tokens])

\* Variant of MayRun: every request is dispatched on a thread of its own.
MayRunThreaded(r) == TRUE

\* fetch_analysis is a coroutine with no await from the parse to the return:
\* once a request enters analyze_document_content it keeps the event loop's
\* only thread (time.sleep and the completion call included) until it returns.
MayRun(r) == \A q \in Requests \ {r} : pc[q] \in {"pending", "done"}

\* Chunks handed to the requests so far.
RECURSIVE Assigned(_)
Assigned(r) ==
    IF r = 0 THEN 0 ELSE remaining[r] + completed[r] + Assigned(r - 1)

\* analyze_document_content is entered; the chunker has returned
\* n chunks for this request.
Begin(r) ==
    /\ pc[r] = "pending"
    /\ MayRun(r)
    /\ \E n \in 0..(MaxChunks - Assigned(NumRequests)) :
          remaining' = [remaining EXCEPT ![r] = n]
    /\ pc' = [pc EXCEPT ![r] = "next"]
    /\ UNCHANGED <<chunkVars, otherVars, token_usage, last_request_age, chunkTok,
                   availSeen, sleepLeft, completed>>

\* for chunk in chunks: wait_if_needed(count_tokens(chunk)) is called
TakeChunk(r) ==
    /\ pc[r] = "next"
    /\ remaining[r] > 0
    /\ \E c \in 1..MaxChunkTokens : chunkTok' = [chunkTok EXCEPT ![r] = c]
    /\ pc' = [pc EXCEPT ![r] = "check"]
    /\ UNCHANGED <<chunkVars, otherVars, token_usage, last_request_age, remaining,
                   availSeen, sleepLeft, completed>>

\* the loop over the chunks is over: return analyses
Finish(r) ==
    /\ pc[r] = "next"
    /\ remaining[r] = 0
    /\ pc' = [pc EXCEPT ![r] = "done"]
    /\ UNCHANGED <<chunkVars, otherVars, token_usage, last_request_age, remaining,
                   chunkTok, availSeen, sleepLeft, completed>>

\* wait_if_needed: while not self.can_make_request(" " * required_tokens)
Check(r) ==
    /\ pc[r] = "check"
    /\ LET c == CanMakeRequest(Spaces(chunkTok[r]), token_usage, availSeen[r])
       IN  /\ token_usage' = c.usage
           /\ availSeen' = [availSeen EXCEPT ![r] = c.seen]
           /\ pc' = [pc EXCEPT ![r] = IF c.result THEN "admitted" ELSE "backoff"]
    /\ UNCHANGED <<chunkVars, otherVars, last_request_age, remaining, chunkTok,
                   sleepLeft, completed>>

\* wait_if_needed, the loop body: sleep for what is left of one second since
\* the last request, or for one second
Backoff(r) ==
    /\ pc[r] = "backoff"
    /\ \/ /\ last_request_age < 1
          /\ sleepLeft' = [sleepLeft EXCEPT ![r] = 1 - last_request_age]
       \/ /\ last_request_age >= 1
          /\ sleepLeft' = [sleepLeft EXCEPT ![r] = 1]
    /\ pc' = [pc EXCEPT ![r] = "sleep"]
    /\ UNCHANGED <<chunkVars, otherVars, token_usage, last_request_age, remaining,
                   chunkTok, availSeen, completed>>

\* time.sleep returns; the while condition is evaluated again
Wake(r) ==
    /\ pc[r] = "sleep"
    /\ sleepLeft[r] = 0
    /\ pc' = [pc EXCEPT ![r] = "check"]
    /\ UNCHANGED <<chunkVars, otherVars, token_usage, last_request_age, remaining,
                   chunkTok, availSeen, sleepLeft, completed>>

\* groq_analysis up to the completion call: total_tokens is recorded
Record(r) ==
    /\ pc[r] = "admitted"
    /\ token_usage' = RecordTokenUsage(token_usage, chunkTok[r] + PromptTokens)
    /\ last_request_age' = 0
    /\ pc' = [pc EXCEPT ![r] = "call"]
    /\ UNCHANGED <<chunkVars, otherVars, remaining, chunkTok, availSeen, sleepLeft,
                   completed>>

\* the completion call returns and the result is appended
Complete(r) ==
    /\ pc[r] = "call"
    /\ completed' = [completed EXCEPT ![r] = @ + 1]
    /\ remaining' = [remaining EXCEPT ![r] = @ - 1]
    /\ chunkTok' = [chunkTok EXCEPT ![r] = 0]
    /\ availSeen' = [availSeen EXCEPT ![r] = TokensPerMinute]
    /\ pc' = [pc EXCEPT ![r] = "next"]
    /\ UNCHANGED <<chunkVars, otherVars, token_usage, last_request_age, sleepLeft>>

AgeOne(u) == [u EXCEPT !.age = IF @ > Window THEN @ ELSE @ + 1]

\* one second passes on the clock datetime.now() reads
Tick ==
    /\ token_usage' = [i \in 1..Len(token_usage) |-> AgeOne(token_usage[i])]
    /\ last_request_age' = 1
    /\ sleepLeft' = [r \in Requests |-> Max(0, sleepLeft[r] - 1)]
    /\ UNCHANGED <<chunkVars, otherVars, pc, remaining, chunkTok, availSeen, completed>>

Init ==
    /\ IdleChunk
    /\ InitLimiter
    /\ IdleParse
    /\ IdleDispatch
    /\ IdleApi
    /\ IdleLedger
    /\ IdleWait

Next ==
    \/ \E r \in Requests :
          \/ Begin(r)
          \/ TakeChunk(r)
          \/ Finish(r)
          \/ Check(r)
          \/ Backoff(r)
          \/ Wake(r)
          \/ Record(r)
          \/ Complete(r)
    \/ Tick

Spec == Init /\ [][Next]_vars

\* ------------------------------------------------------------- properties
\* Tokens of the records of usage[1..i] that are younger than w seconds.
RECURSIVE UsedWithin(_, _, _)
UsedWithin(usage, i, w) ==
    IF i = 0 THEN 0
    ELSE (IF usage[i].age < w THEN usage[i].tokens ELSE 0)
         + UsedWithin(usage, i - 1, w)

\* The records of usage[i..] that are younger than w seconds, in order.
RECURSIVE Pick(_, _, _)
Pick(usage, i, w) ==
    IF i > Len(usage) THEN <<>>
    ELSE (IF usage[i].age < w THEN <<usage[i]>> ELSE <<>>)
         \o Pick(usage, i + 1, w)

\* tokens of the probe wait_if_needed builds for request r
ProbeTokens(r) == count_tokens(Spaces(chunkTok[r]))

\* request r leaves the admission check in this step
Checked(r) == pc[r] = "check" /\ pc'[r] # "check"

\* C1: in every 60-second window the tokens of the usage records whose
\* timestamps fall in it never exceed tokens_per_minute. (The window that
\* ends now is checked in every state, hence every window.)
Claim_C1 == UsedWithin(token_usage, Len(token_usage), Window) <= TokensPerMinute

\* C2: the admission check and the record_token_usage that follows it are
\* mutually exclusive across requests: while a request is between entering
\* wait_if_needed and recording, no other request is, and the capacity it was
\* admitted against has not been taken by another request.
Theorem_C2 ==
    \A r \in Requests :
        pc[r] \in {"check", "backoff", "sleep", "admitted"} =>
            /\ \A q \in Requests \ {r} :
                   pc[q] \notin {"check", "backoff", "sleep", "admitted", "call"}
            /\ pc[r] = "admitted" =>
                   availSeen[r] <= Max(0, TokensPerMinute
                       - UsedWithin(token_usage, Len(token_usage), Window))

\* C2 witness: a request is admitted, usage of an earlier chunk is on the
\* ledger, and another request is in flight, not yet dispatched.
Witness_C2 ==
    \E r \in Requests : \E q \in Requests \ {r} :
        /\ pc[r] = "admitted"
        /\ pc[q] = "pending"
        /\ Len(token_usage) > 0

\* C3: wait_if_needed(required_tokens) returns only when a request of
\* exactly required_tokens tokens is admissible: required_tokens is within
\* the budget and within the available tokens of its last check.
Claim_C3 ==
    \A r \in Requests :
        pc[r] = "admitted" =>
            /\ chunkTok[r] <= Budget
            /\ chunkTok[r] <= availSeen[r]

\* C4: wait_if_needed(required_tokens) never returns when required_tokens
\* is greater than max_tokens_per_request - reserved_tokens.
Claim_C4 ==
    \A r \in Requests :
        chunkTok[r] > Budget => pc[r] \notin {"admitted", "call"}

\* C5: can_make_request(text) is true exactly when count_tokens(text) is
\* within the budget and within what get_available_tokens returns at that
\* moment, and it adds no usage record.
Theorem_C5 ==
    [][\A r \in Requests :
          Checked(r) =>
              /\ (pc'[r] = "admitted") <=>
                    /\ ProbeTokens(r) <= Budget
                    /\ ProbeTokens(r) <= Max(0, TokensPerMinute
                          - UsedWithin(token_usage, Len(token_usage), Window))
              /\ pc'[r] \in {"admitted", "backoff"}
              /\ \A i \in 1..Len(token_usage') :
                    \E j \in 1..Len(token_usage) :
                        token_usage'[i] = token_usage[j]
      ]_vars

\* C5 witness: a probe within the budget was refused because the window
\* has too few tokens left.
Witness_C5 ==
    \E r \in Requests :
        /\ pc[r] = "backoff"
        /\ ProbeTokens(r) <= Budget
        /\ ProbeTokens(r) > availSeen[r]

\* C6 as stated: get_available_tokens removes exactly the records older
\* than 60 seconds, keeps a record aged 60 seconds or less, and returns
\* max(0, tokens_per_minute - tokens kept), a value in 0..tokens_per_minute.
Claim_C6 ==
    [][\A r \in Requests :
          (Checked(r) /\ ProbeTokens(r) <= Budget) =>
              /\ token_usage' = Pick(token_usage, 1, Window + 1)
              /\ availSeen'[r] = Max(0, TokensPerMinute
                    - UsedWithin(token_usage, Len(token_usage), Window + 1))
              /\ availSeen'[r] \in 0..TokensPerMinute
      ]_vars

\* C6 amended: get_available_tokens removes exactly the records aged 60
\* seconds or more, keeps unchanged the records younger than 60 seconds, and
\* returns max(0, tokens_per_minute - tokens kept), in 0..tokens_per_minute.
Theorem_C6 ==
    [][\A r \in Requests :
          (Checked(r) /\ ProbeTokens(r) <= Budget) =>
              /\ token_usage' = Pick(token_usage, 1, Window)
              /\ availSeen'[r] = Max(0, TokensPerMinute
                    - UsedWithin(token_usage, Len(token_usage), Window))
              /\ availSeen'[r] \in 0..TokensPerMinute
      ]_vars

\* C6 witness: a check has pruned the record of an earlier chunk.
Witness_C6 ==
    \E r \in Requests :
        /\ pc[r] = "admitted"
        /\ token_usage = <<>>
        /\ \E q \in Requests : completed[q] > 0

\* C7: every usage record created for a dispatched chunk has
\* tokens <= max_tokens_per_request - reserved_tokens.
Claim_C7 ==
    \A i \in 1..Len(token_usage) : token_usage[i].tokens <= Budget

\* C8: every chunk split_text_into_chunks returns, joins and trailing period
\* included, counts at most the budget, unless the chunk is a single word
\* whose own token count exceeds the budget.
Claim_C8 ==
    cpc = "split" =>
        \A i \in 1..Len(chunks) :
            \/ count_tokens(chunks[i]) <= Budget
            \/ \A k \in 1..Len(chunks[i]) : chunks[i][k] # " "

\* The words of a text, punctuation and spacing aside: the lengths of its
\* maximal runs of letters, in order.
RECURSIVE LetterRuns(_, _)
LetterRuns(s, i) ==
    IF i > Len(s) THEN <<>>
    ELSE IF s[i] # "a" THEN LetterRuns(s, i + 1)
    ELSE LET j == RunEnd(s, i, "a")
         IN  <<j - i + 1>> \o LetterRuns(s, j + 1)

\* C9: read in output order, the chunks give the words of the input in
\* their original order, none dropped or duplicated.
Claim_C9 ==
    cpc = "split" =>
        LetterRuns(Join(chunks, <<" ">>), 1) = LetterRuns(text, 1)

\* C10: split_text_into_chunks of the zero-length string returns no chunk.
Claim_C10 == (cpc = "split" /\ text = <<>>) => chunks = <<>>

\* ================================================== the section extractor
\* Text nodes of the documents. A header text begins with a label; the
\* other texts are body text, and <<>> is a whitespace-only string, which
\* get_text(strip=True) makes empty.
Label1 == <<"1", ".">>
Label1A == <<"1", "A", ".">>
Label2 == <<"2", ".">>
AllLabels == {Label1, Label1A, Label2}

NodeTexts ==
    { Label1, <<"1", "a", ".">>, Label2, <<"1", ".", " ", "b">>,
      <<"x">>, <<"y">>, <<>> }

\* Duplicate-free lists of labels, as the lists of section_config are.
LabelLists ==
    {<<a>> : a \in AllLabels}
    \cup {l \in {<<a, b>> : a \in AllLabels, b \in AllLabels} : l[1] # l[2]}
    \cup {l \in {<<a, b, c>> : a \in AllLabels, b \in AllLabels,
                               c \in AllLabels} :
             l[1] # l[2] /\ l[1] # l[3] /\ l[2] # l[3]}

\* The parent elements that have n child elements.
RECURSIVE ParentsOfLen(_)
ParentsOfLen(n) ==
    IF n = 0 THEN {<<>>}
    ELSE {Append(e, t) : e \in ParentsOfLen(n - 1), t \in NodeTexts}

\* The documents of n text nodes: sequences of non-empty parent elements.
RECURSIVE DocsOfSize(_)
DocsOfSize(n) ==
    IF n = 0 THEN {<<>>}
    ELSE UNION { {<<e>> \o d : e \in ParentsOfLen(k), d \in DocsOfSize(n - k)}
                 : k \in 1..n }

\* The document of the scenario "Item 1. Alpha text. Item 1A. Beta text.
\* Item 2. Gamma.", each header and each body a text node: as six sibling
\* elements, as three header/body pairs, and as six elements that have no
\* sibling.
ScenarioTexts ==
    << Label1, <<"x">>, Label1A, <<"y">>, Label2, <<"z">> >>

ScenarioDocs ==
    { <<ScenarioTexts>>,
      << <<Label1, <<"x">>>>, <<Label1A, <<"y">>>>, <<Label2, <<"z">>>> >>,
      [i \in 1..6 |-> <<ScenarioTexts[i]>>] }

ScenarioLabels == <<Label1, Label1A, Label2>>

Docs == UNION {DocsOfSize(n) : n \in 0..MaxNodes} \cup ScenarioDocs

\* soup.find_all(string=True): the text nodes in document order, each with
\* its parent element's place: [text, parent, child].
RECURSIVE NodesFrom(_, _)
NodesFrom(d, e) ==
    IF e > Len(d) THEN <<>>
    ELSE [c \in 1..Len(d[e]) |-> [text |-> d[e][c], parent |-> e, child |-> c]]
         \o NodesFrom(d, e + 1)

Nodes(d) == NodesFrom(d, 1)

\* re.IGNORECASE on the characters of the model
Fold(c) == IF c = "a" THEN "A" ELSE c

\* re.compile(rf'^\s*{re.escape(sec)}(?=\s|$)', re.IGNORECASE).match(t),
\* for a stripped text t
Matches(label, t) ==
    /\ Len(t) >= Len(label)
    /\ \A i \in 1..Len(label) : Fold(t[i]) = Fold(label[i])
    /\ Len(t) = Len(label) \/ t[Len(label) + 1] = " "

\* next((sec for sec, pat in patterns.items() if pat.match(text)), None):
\* the index in L of the first label whose pattern matches, 0 for None
Hit(L, t) ==
    LET M == {i \in 1..Len(L) : Matches(L[i], t)}
    IN  IF M = {} THEN 0 ELSE CHOOSE i \in M : \A j \in M : i <= j

\* any(p.match(t) for p in patterns.values())
AnyMatch(L, t) == \E i \in 1..Len(L) : Matches(L[i], t)

\* The texts of the nodes ns[k] for k in the sequence ids.
TextsOf(ns, ids) == [k \in 1..Len(ids) |-> ns[ids[k]].text]

\* clean_content: join with ' ', collapse whitespace runs, strip
clean_content(content_list) == Join(SplitWords(Join(content_list, <<" ">>)), <<" ">>)

\* for sib in elem.parent.next_siblings: the ids of the sibling elements of
\* node k that are appended, from sibling id j on, up to the first sibling
\* that matches a pattern.
RECURSIVE LookAhead(_, _, _, _)
LookAhead(ns, L, k, j) ==
    IF j > Len(ns) \/ ns[j].parent # ns[k].parent THEN <<>>
    ELSE IF AnyMatch(L, ns[j].text) THEN <<>>
    ELSE <<j>> \o LookAhead(ns, L, k, j + 1)

\* Variant of SetRaw: the key is removed and inserted again, at the end.
SetRawAtEnd(raw, key, value, ids) ==
    SelectSeq(raw, LAMBDA e : e.key # key)
    \o <<[key |-> key, value |-> value, nodes |-> ids]>>

\* raw_texts[key] = value, the order of the keys kept; ids are the nodes the
\* value was built from.
SetRaw(raw, key, value, ids) ==
    [i \in 1..Len(raw) |->
        IF raw[i].key = key
        THEN [key |-> key, value |-> value, nodes |-> ids] ELSE raw[i]]

\* Variant of Flush: the buffer is added to what the label already holds.
FlushAppending(ns, L, st) ==
    LET old == CHOOSE i \in 1..Len(st.raw) : st.raw[i].key = L[st.current]
    IN  SetRaw(st.raw, L[st.current],
               clean_content(<<st.raw[old].value>> \o TextsOf(ns, st.buffer)),
               st.raw[old].nodes \o st.buffer)

\* raw_texts[current] = clean_content(buffer)
Flush(ns, L, st) ==
    SetRaw(st.raw, L[st.current], clean_content(TextsOf(ns, st.buffer)),
           st.buffer)

\* the body of `if hit:`: flush under the previous label, restart the
\* buffer with the header's text, then look ahead over the siblings
WalkHit(ns, L, st, k, hit) ==
    LET ahead == LookAhead(ns, L, k, k + 1)
        added == <<k>> \o ahead
    IN  [raw |-> IF st.current # 0 THEN Flush(ns, L, st) ELSE st.raw,
         current |-> hit,
         buffer |-> (IF st.current # 0 THEN <<>> ELSE st.buffer) \o added,
         log |-> st.log \o [i \in 1..Len(added) |->
                               [node |-> added[i], label |-> hit]],
         hits |-> Append(st.hits, [node |-> k, label |-> hit])]

\* for elem in soup.find_all(string=True): st = [raw, current, buffer] and
\* the history of the walk: log, every buffer.append as [node, label], and
\* hits, every header detected as [node, label].
RECURSIVE WalkLoop(_, _, _, _)
WalkLoop(ns, L, k, st) ==
    IF k > Len(ns) THEN st
    ELSE LET hit == Hit(L, ns[k].text)
         IN  IF hit # 0
             THEN WalkLoop(ns, L, k + 1, WalkHit(ns, L, st, k, hit))
             ELSE IF st.current # 0
             THEN WalkLoop(ns, L, k + 1,
                    [st EXCEPT !.buffer = Append(@, k),
                               !.log = Append(@, [node |-> k,
                                                  label |-> st.current])])
             ELSE WalkLoop(ns, L, k + 1, st)

\* parse_sec_document up to "save last"
Walk(d, L) ==
    LET ns == Nodes(d)
        st == WalkLoop(ns, L, 1,
                [raw |-> [i \in 1..Len(L) |->
                            [key |-> L[i], value |-> <<>>, nodes |-> <<>>]],
                 current |-> 0, buffer |-> <<>>, log |-> <<>>, hits |-> <<>>])
    IN  IF st.current # 0 /\ Len(st.buffer) > 0
        THEN [st EXCEPT !.raw = Flush(ns, L, st)]
        ELSE st

\* split_into_token_chunks cuts the encoded text every max_tokens tokens and
\* decodes each slice. The tokens of s from index i on, as the pieces of
\* text they decode to (count_tokens counts the same pieces).
RECURSIVE Pieces(_, _)
Pieces(s, i) ==
    IF i > Len(s) THEN <<>>
    ELSE IF s[i] \notin {" ", "."} THEN <<SubSeq(s, i, i)>> \o Pieces(s, i + 1)
    ELSE IF s[i] = "."
         THEN LET j == RunEnd(s, i, ".")
              IN  <<SubSeq(s, i, j)>> \o Pieces(s, j + 1)
    ELSE LET j == RunEnd(s, i, " ")
             ws == IF j = Len(s) THEN j ELSE j - 1
             \* the whitespace piece s[i..ws], SpaceMerge spaces a token
             run == [n \in 1..SpaceCost(ws - i + 1) |->
                       SubSeq(s, i + (n - 1) * SpaceMerge,
                              IF i + n * SpaceMerge - 1 > ws THEN ws
                              ELSE i + n * SpaceMerge - 1)]
         IN  IF j = Len(s) THEN run
             ELSE IF s[j + 1] = "."
                  THEN LET e == RunEnd(s, j + 1, ".")
                       IN  run \o <<SubSeq(s, j, e)>> \o Pieces(s, e + 1)
                  ELSE run \o <<SubSeq(s, j, j + 1)>> \o Pieces(s, j + 2)

\* enc.decode(tokens[i : i + max_tokens]) for i in range(0, len(tokens),
\* max_tokens), on the token list toks
RECURSIVE Slices(_, _)
Slices(toks, max_tokens) ==
    IF Len(toks) = 0 THEN <<>>
    ELSE IF Len(toks) <= max_tokens THEN <<Join(toks, <<>>)>>
    ELSE <<Join(SubSeq(toks, 1, max_tokens), <<>>)>>
         \o Slices(SubSeq(toks, max_tokens + 1, Len(toks)), max_tokens)

split_into_token_chunks(t, max_tokens) == Slices(Pieces(t, 1), max_tokens)

NotFound == <<"n", "o", "t", " ", "f", "o", "u", "n", "d">>

\* Variant of Wrap: a label without text gets an empty list.
WrapEmpty(entry) ==
    [key |-> entry.key,
     value |-> split_into_token_chunks(entry.value, ParseMaxTokens)]

\* step 3 of parse_sec_document for one entry of raw_texts
Wrap(entry) ==
    [key |-> entry.key,
     value |-> IF Len(entry.value) = 0 THEN <<NotFound>>
               ELSE split_into_token_chunks(entry.value, ParseMaxTokens)]

parse_sec_document(d, L) ==
    LET raw == Walk(d, L).raw
    IN  [i \in 1..Len(raw) |-> Wrap(raw[i])]

\* ------------------------------------------------ extractor specification
InitParse ==
    /\ doc \in Docs
    /\ labels \in LabelLists
    /\ ppc = "input"
    /\ walk = <<>>
    /\ result = <<>>
    /\ IdleChunk
    /\ InitLimiter
    /\ IdleDispatch
    /\ IdleApi
    /\ IdleLedger
    /\ IdleWait

\* sections = parse_sec_document(html, section_definition)
Parse ==
    /\ ppc = "input"
    /\ walk' = Walk(doc, labels)
    /\ result' = parse_sec_document(doc, labels)
    /\ ppc' = "parsed"
    /\ UNCHANGED <<doc, labels, chunkVars, limiterVars, dispVars, apiVars, ledgerVars, waitVars>>

NextParse == Parse

SpecParse == InitParse /\ [][NextParse]_vars

\* ------------------------------------------- properties of the extractor
Parsed == ppc = "parsed"

\* The labels (as indices of the label list) of the headers detected, in
\* document order.
HitLabels == [k \in 1..Len(walk.hits) |-> walk.hits[k].label]

Theorem_C12 ==
    Parsed =>
        \A i \in 1..Len(result) :
            /\ (result[i].value = <<NotFound>>)
                  <=> (\A k \in 1..Len(walk.log) : walk.log[k].label # i)
            /\ Len(result[i].value) > 0
            /\ \A c \in 1..Len(result[i].value) : Len(result[i].value[c]) > 0
            /\ (\E k \in 1..Len(walk.hits) : HitLabels[k] = i)
                  => result[i].value # <<NotFound>>

\* C12 witness: one label got the sentinel and another one got its text.
Witness_C12 ==
    /\ Parsed
    /\ \E i, j \in 1..Len(result) :
          /\ result[i].value = <<NotFound>>
          /\ \E k \in 1..Len(walk.hits) : HitLabels[k] = j

\* C15: for the scenario document and labels, each label maps to its own
\* body text only: "Alpha text." (x), "Beta text." (y), "Gamma." (z).
Claim_C15 ==
    (Parsed /\ doc \in ScenarioDocs /\ labels = ScenarioLabels) =>
        /\ Len(result) = 3
        /\ Join(result[1].value, <<>>) = <<"x">>
        /\ Join(result[2].value, <<>>) = <<"y">>
        /\ Join(result[3].value, <<>>) = <<"z">>

\* The node of the last header detected for label i, 0 when there is none.
LastHit(i) ==
    LET H == {walk.hits[k].node : k \in {n \in 1..Len(walk.hits) : HitLabels[n] = i}}
    IN  IF H = {} THEN 0 ELSE CHOOSE n \in H : \A m \in H : m <= n

\* The node of the first header detected, 0 when there is none.
FirstHit == IF Len(walk.hits) = 0 THEN 0 ELSE walk.hits[1].node

\* C19: when a label is matched more than once, its value is built only
\* from the text accumulated from its last occurrence on; what was
\* accumulated under earlier occurrences is discarded; text before the first
\* matched label appears under no label.
Theorem_C19 ==
    Parsed =>
        \A i \in 1..Len(labels) :
            LET e == walk.raw[i]
            IN  /\ e.value = clean_content(TextsOf(Nodes(doc), e.nodes))
                /\ result[i] = Wrap(e)
                /\ \A n \in 1..Len(e.nodes) :
                      e.nodes[n] >= LastHit(i) /\ e.nodes[n] >= FirstHit
                /\ LastHit(i) # 0 => (Len(e.nodes) > 0 /\ e.nodes[1] = LastHit(i))
                /\ LastHit(i) = 0 => e.nodes = <<>>

\* C19 witness: a label is matched twice and text was accumulated under its
\* first occurrence, and a text node precedes the first header.
Witness_C19 ==
    /\ Parsed
    /\ \E i \in 1..Len(labels) :
          \E k \in 1..Len(walk.log) :
              walk.log[k].label = i /\ walk.log[k].node < LastHit(i)

\* C20: every text node is appended to the buffer at most once, and only
\* under the most recent label matched at or before it in document order.
Claim_C20 ==
    Parsed =>
        /\ \A a, b \in 1..Len(walk.log) :
              a # b => walk.log[a].node # walk.log[b].node
        /\ \A a \in 1..Len(walk.log) :
              \E k \in 1..Len(walk.hits) :
                  /\ walk.hits[k].node <= walk.log[a].node
                  /\ walk.hits[k].label = walk.log[a].label
                  /\ \A m \in 1..Len(walk.hits) :
                        walk.hits[m].node <= walk.log[a].node
                            => walk.hits[m].node <= walk.hits[k].node

\* ---------------------------------------------------------- the dispatcher
MaxSections == 2

Label1B == <<"1", "B", ".">>
Label1C == <<"1", "C", ".">>
Label6 == <<"6", ".">>
Label7 == <<"7", ".">>
Label7A == <<"7", "A", ".">>
ContentKey == <<"content">>

\* section_groups of analyze_10k and of analyze_10q, in dict order
SectionGroups(ft) ==
    IF ft = "10-K"
    THEN << [name |-> "business_overview",
             keys |-> <<Label1, Label1A, Label1B, Label1C>>],
            [name |-> "financial_metrics", keys |-> <<Label6, Label7, Label7A>>],
            [name |-> "risk_factors", keys |-> <<Label1A>>],
            [name |-> "management_discussion", keys |-> <<Label7>>] >>
    ELSE << [name |-> "financial_statements", keys |-> <<Label1, Label2>>],
            [name |-> "management_discussion", keys |-> <<Label2>>] >>

FormTypes == {"10-K", "10-Q", "8-K"}

\* The values a section holds: the sentinel, one short slice, one slice of
\* three sentences.
SectionValues ==
    { <<NotFound>>, << <<"a">> >>, << <<"a", ".", " ", "a", ".", " ", "a">> >> }

SectionKeys == {Label1, Label1A, Label7, Label2, ContentKey}

SectionEntries == [key : SectionKeys, value : SectionValues]

RECURSIVE SectionsOfLen(_)
SectionsOfLen(n) ==
    IF n = 0 THEN {<<>>}
    ELSE {Append(m, e) : m \in SectionsOfLen(n - 1), e \in SectionEntries}

\* The dicts given to the dispatch: no key twice.
SectionMaps ==
    {m \in UNION {SectionsOfLen(n) : n \in 0..MaxSections} :
        \A i, j \in 1..Len(m) : i # j => m[i].key # m[j].key}

\* key in sections
HasKey(secs, key) == \E i \in 1..Len(secs) : secs[i].key = key

\* sections[key]
Lookup(secs, key) == secs[CHOOSE i \in 1..Len(secs) : secs[i].key = key].value

\* for key in section_keys: if key in sections:
\*     group_content.extend(sections[key])
RECURSIVE GroupContent(_, _, _)
GroupContent(secs, keys, i) ==
    IF i > Len(keys) THEN <<>>
    ELSE (IF HasKey(secs, keys[i]) THEN Lookup(secs, keys[i]) ELSE <<>>)
         \o GroupContent(secs, keys, i + 1)

\* chunk for section in sections.values() for chunk in section
RECURSIVE AllChunks(_, _)
AllChunks(secs, i) ==
    IF i > Len(secs) THEN <<>> ELSE secs[i].value \o AllChunks(secs, i + 1)

\* the content analyze_simple_document hands to the chunker
SimpleContent(secs) ==
    IF HasKey(secs, ContentKey)
    THEN Join(Lookup(secs, ContentKey), <<" ">>)
    ELSE Join(AllChunks(secs, 1), <<" ">>)

Grouped == form_type \in {"10-K", "10-Q"}

\* the group in hand and the name its prompt is chosen by:
\* get_section_prompt(form, group_name) or get_system_prompt(form_type)
GroupName == IF Grouped THEN SectionGroups(form_type)[group].name ELSE form_type

\* f"{group_name.upper()} ANALYSIS:"
Header(g) == [kind |-> "header", group |-> g, text |-> <<>>]

\* ""
Blank == [kind |-> "blank", group |-> "", text |-> <<>>]

\* what the completion service returns for a chunk under a prompt
Completion(g, chunk) == [kind |-> "result", group |-> g, text |-> chunk]

Call(op, n) == [op |-> op, group |-> GroupName, chunk |-> idx, tokens |-> n]

InitDispatch ==
    /\ form_type \in FormTypes
    /\ sections \in SectionMaps
    /\ dpc = "start"
    /\ group = 0
    /\ gchunks = <<>>
    /\ idx = 0
    /\ chunk_analyses = <<>>
    /\ analyses = <<>>
    /\ calls = <<>>
    /\ IdleChunk
    /\ InitLimiter
    /\ IdleParse
    /\ IdleApi
    /\ IdleLedger
    /\ IdleWait

\* analyze_document_content routes on form_type; analyze_simple_document
\* chunks the whole content at once
DStart ==
    /\ dpc = "start"
    /\ IF Grouped
       THEN /\ group' = 1
            /\ dpc' = "group"
            /\ UNCHANGED <<gchunks, idx>>
       ELSE /\ gchunks' = split_text_into_chunks(SimpleContent(sections))
            /\ idx' = 1
            /\ dpc' = "chunk"
            /\ UNCHANGED group
    /\ UNCHANGED <<form_type, sections, chunk_analyses, analyses, calls,
                   chunkVars, limiterVars, parseVars, apiVars, ledgerVars, waitVars>>

\* for group_name, section_keys in section_groups.items(): the group's
\* content is collected; `if group_content:` skips the group or chunks it
DGroup ==
    /\ dpc = "group"
    /\ group <= Len(SectionGroups(form_type))
    /\ LET content == GroupContent(sections, SectionGroups(form_type)[group].keys, 1)
       IN  IF content = <<>>
           THEN /\ group' = group + 1
                /\ UNCHANGED <<gchunks, idx, dpc>>
           ELSE /\ gchunks' = split_text_into_chunks(Join(content, <<" ">>))
                /\ idx' = 1
                /\ dpc' = "chunk"
                /\ UNCHANGED group
    /\ UNCHANGED <<form_type, sections, chunk_analyses, analyses, calls,
                   chunkVars, limiterVars, parseVars, apiVars, ledgerVars, waitVars>>

\* the loop over the groups is over: return analyses
DReturn ==
    /\ dpc = "group"
    /\ group > Len(SectionGroups(form_type))
    /\ dpc' = "returned"
    /\ UNCHANGED <<form_type, sections, group, gchunks, idx, chunk_analyses,
                   analyses, calls, chunkVars, limiterVars, parseVars, apiVars, ledgerVars, waitVars>>

\* rate_limiter.wait_if_needed(rate_limiter.count_tokens(chunk)) is called
DWait ==
    /\ dpc = "chunk"
    /\ idx <= Len(gchunks)
    /\ calls' = Append(calls, Call("wait", count_tokens(gchunks[idx])))
    /\ dpc' = "waiting"
    /\ UNCHANGED <<form_type, sections, group, gchunks, idx, chunk_analyses,
                   analyses, chunkVars, limiterVars, parseVars, apiVars, ledgerVars, waitVars>>

\* wait_if_needed: the probe is refused and the loop body sleeps; a second
\* has passed when the condition is evaluated again
DSleep ==
    /\ dpc = "waiting"
    /\ LET c == CanMakeRequest(Spaces(count_tokens(gchunks[idx])), token_usage,
                               availSeen[1])
       IN  /\ ~c.result
           /\ token_usage' = [i \in 1..Len(c.usage) |-> AgeOne(c.usage[i])]
    /\ last_request_age' = 1
    /\ UNCHANGED <<dispVars, chunkVars, pc, remaining, chunkTok, availSeen,
                   sleepLeft, completed, parseVars, apiVars, ledgerVars, waitVars>>

\* wait_if_needed: the probe is accepted and the call returns
DAdmit ==
    /\ dpc = "waiting"
    /\ LET c == CanMakeRequest(Spaces(count_tokens(gchunks[idx])), token_usage,
                               availSeen[1])
       IN  /\ c.result
           /\ token_usage' = c.usage
    /\ calls' = Append(calls, Call("admitted", count_tokens(gchunks[idx])))
    /\ dpc' = "admitted"
    /\ UNCHANGED <<form_type, sections, group, gchunks, idx, chunk_analyses,
                   analyses, chunkVars, last_request_age, pc, remaining,
                   chunkTok, availSeen, sleepLeft, completed, parseVars, apiVars, ledgerVars, waitVars>>

\* Variant of DRecord: the usage is recorded without waiting for admission.
DRecordEarly ==
    /\ dpc \in {"waiting", "admitted"}
    /\ LET total == count_tokens(gchunks[idx]) + PromptTokens
       IN  /\ token_usage' = RecordTokenUsage(token_usage, total)
           /\ calls' = Append(calls, Call("record", total))
    /\ last_request_age' = 0
    /\ dpc' = "call"
    /\ UNCHANGED <<form_type, sections, group, gchunks, idx, chunk_analyses,
                   analyses, chunkVars, pc, remaining, chunkTok, availSeen,
                   sleepLeft, completed, parseVars, apiVars, ledgerVars, waitVars>>

\* groq_analysis up to the completion call: total_tokens is recorded
DRecord ==
    /\ dpc = "admitted"
    /\ LET total == count_tokens(gchunks[idx]) + PromptTokens
       IN  /\ token_usage' = RecordTokenUsage(token_usage, total)
           /\ calls' = Append(calls, Call("record", total))
    /\ last_request_age' = 0
    /\ dpc' = "call"
    /\ UNCHANGED <<form_type, sections, group, gchunks, idx, chunk_analyses,
                   analyses, chunkVars, pc, remaining, chunkTok, availSeen,
                   sleepLeft, completed, parseVars, apiVars, ledgerVars, waitVars>>

\* the completion call returns and its result is appended
DComplete ==
    /\ dpc = "call"
    /\ chunk_analyses' = Append(chunk_analyses, Completion(GroupName, gchunks[idx]))
    /\ calls' = Append(calls, Call("complete", count_tokens(gchunks[idx])))
    /\ idx' = idx + 1
    /\ dpc' = "chunk"
    /\ UNCHANGED <<form_type, sections, group, gchunks, analyses, chunkVars,
                   limiterVars, parseVars, apiVars, ledgerVars, waitVars>>

\* Variant of DEndGroup: the header is appended after the group's results.
DEndGroupHeaderLast ==
    /\ dpc = "chunk"
    /\ idx > Len(gchunks)
    /\ IF Grouped
       THEN /\ analyses' = analyses \o chunk_analyses \o <<Header(GroupName)>>
                           \o <<Blank>>
            /\ group' = group + 1
            /\ dpc' = "group"
       ELSE /\ analyses' = analyses \o chunk_analyses
            /\ dpc' = "returned"
            /\ UNCHANGED group
    /\ chunk_analyses' = <<>>
    /\ UNCHANGED <<form_type, sections, gchunks, idx, calls, chunkVars,
                   limiterVars, parseVars, apiVars, ledgerVars, waitVars>>

\* the loop over the chunks is over. analyze_10k and analyze_10q append the
\* header, the group's results and "" to analyses; analyze_simple_document
\* returns the results alone
DEndGroup ==
    /\ dpc = "chunk"
    /\ idx > Len(gchunks)
    /\ IF Grouped
       THEN /\ analyses' = analyses \o <<Header(GroupName)>> \o chunk_analyses
                           \o <<Blank>>
            /\ group' = group + 1
            /\ dpc' = "group"
       ELSE /\ analyses' = analyses \o chunk_analyses
            /\ dpc' = "returned"
            /\ UNCHANGED group
    /\ chunk_analyses' = <<>>
    /\ UNCHANGED <<form_type, sections, gchunks, idx, calls, chunkVars,
                   limiterVars, parseVars, apiVars, ledgerVars, waitVars>>

NextDispatch ==
    \/ DStart
    \/ DGroup
    \/ DReturn
    \/ DWait
    \/ DSleep
    \/ DAdmit
    \/ DRecord
    \/ DComplete
    \/ DEndGroup

SpecDispatch == InitDispatch /\ [][NextDispatch]_vars

\* ------------------------------------------ properties of the dispatcher
Returned == dpc = "returned"

InChunkLoop == dpc \in {"chunk", "waiting", "admitted", "call"}

\* The list of section chunks the text in hand was joined from.
ContentInHand ==
    IF Grouped THEN GroupContent(sections, SectionGroups(form_type)[group].keys, 1)
    ELSE IF HasKey(sections, ContentKey) THEN Lookup(sections, ContentKey)
    ELSE AllChunks(sections, 1)

\* The content of the group named g holds nothing but sentinels (or nothing).
SentinelOnly(g) ==
    \A n \in 1..Len(SectionGroups(form_type)) :
        SectionGroups(form_type)[n].name = g =>
            LET content == GroupContent(sections, SectionGroups(form_type)[n].keys, 1)
            IN  \A i \in 1..Len(content) : content[i] = NotFound

\* C13: the dispatcher never submits the "not found" sentinel: the sentinel
\* is never part of the text chunked for a group, and a group whose sections
\* are absent or hold only the sentinel gets no header, no wait_if_needed
\* call, no usage record and no completion call.
Claim_C13 ==
    /\ InChunkLoop =>
          \A i \in 1..Len(ContentInHand) : ContentInHand[i] # NotFound
    /\ Grouped =>
          /\ \A k \in 1..Len(calls) : ~SentinelOnly(calls[k].group)
          /\ \A k \in 1..Len(analyses) :
                analyses[k].kind = "header" => ~SentinelOnly(analyses[k].group)

CallOrder == <<"wait", "admitted", "record", "complete">>

\* The results appended so far and the completion calls made so far.
Results == SelectSeq(analyses \o chunk_analyses, LAMBDA a : a.kind = "result")
Completes == SelectSeq(calls, LAMBDA c : c.op = "complete")

\* C16: for every chunk the calls come in the order wait_if_needed (called,
\* returned), record_token_usage, completion; the chunks of a group are
\* processed one after another in chunk order, each exactly once, and the
\* results are appended in that same order.
Theorem_C16 ==
    /\ \A k \in 1..Len(calls) :
          LET pos == (k - 1) % 4
          IN  /\ calls[k].op = CallOrder[pos + 1]
              /\ calls[k].group = calls[k - pos].group
              /\ calls[k].chunk = calls[k - pos].chunk
              /\ (pos = 0 /\ k > 1) =>
                    \/ /\ calls[k].group = calls[k - 1].group
                       /\ calls[k].chunk = calls[k - 1].chunk + 1
                    \/ /\ calls[k].group # calls[k - 1].group
                       /\ calls[k].chunk = 1
              /\ k = 1 => calls[k].chunk = 1
    /\ Len(Results) = Len(Completes)
    /\ \A i \in 1..Len(Results) :
          /\ Results[i].group = Completes[i].group
          /\ count_tokens(Results[i].text) = Completes[i].tokens
    /\ InChunkLoop =>
          /\ Len(chunk_analyses) = idx - 1
          /\ idx <= Len(gchunks) + 1
          /\ \A i \in 1..Len(chunk_analyses) :
                chunk_analyses[i] = Completion(GroupName, gchunks[i])
          /\ Len(calls) >= 4 * (idx - 1)
          /\ \A i \in 1..(idx - 1) :
                LET c == calls[Len(calls) - (Len(calls) % 4) - 4 * (idx - 1 - i)]
                IN  c.op = "complete" /\ c.chunk = i /\ c.group = GroupName

\* C16 witness: a group of two chunks has been processed after another
\* group, and the second chunk had to wait.
Witness_C16 ==
    /\ dpc = "chunk"
    /\ idx = 3
    /\ Len(gchunks) = 2
    /\ Len(calls) > 8

\* the output of one group of analyze_10k / analyze_10q
GroupOutput(g) ==
    LET content == GroupContent(sections, g.keys, 1)
        cs == split_text_into_chunks(Join(content, <<" ">>))
    IN  IF content = <<>> THEN <<>>
        ELSE <<Header(g.name)>>
             \o [i \in 1..Len(cs) |-> Completion(g.name, cs[i])]
             \o <<Blank>>

RECURSIVE GroupsOutput(_, _)
GroupsOutput(gs, n) ==
    IF n > Len(gs) THEN <<>> ELSE GroupOutput(gs[n]) \o GroupsOutput(gs, n + 1)

\* the output of analyze_simple_document
SimpleOutput ==
    LET cs == split_text_into_chunks(SimpleContent(sections))
    IN  [i \in 1..Len(cs) |-> Completion(form_type, cs[i])]

\* out is a sequence of blocks: a header, results of the header's group, a
\* blank.
RECURSIVE Blocks(_, _, _)
Blocks(out, k, open) ==
    IF k > Len(out) THEN open = ""
    ELSE IF out[k].kind = "header"
         THEN open = "" /\ Blocks(out, k + 1, out[k].group)
    ELSE IF out[k].kind = "result"
         THEN open # "" /\ out[k].group = open /\ Blocks(out, k + 1, open)
    ELSE open # "" /\ Blocks(out, k + 1, "")

\* C17 as stated: for every document type, the fallback included, the
\* output is, per non-skipped group, one header, the group's results, one
\* blank; no result without the header of its group before it.
Claim_C17 == Returned => Blocks(analyses, 1, "")

\* C17 amended: for 10-K and 10-Q the output is, for each group with
\* content, in declared order, the header, the group's results in chunk
\* order and a blank; the fallback returns the results alone.
Theorem_C17 ==
    Returned =>
        IF Grouped
        THEN /\ analyses = GroupsOutput(SectionGroups(form_type), 1)
             /\ Blocks(analyses, 1, "")
        ELSE /\ analyses = SimpleOutput
             /\ \A k \in 1..Len(analyses) : analyses[k].kind = "result"

\* C17 witness: a 10-K dispatch returned with two groups in the output
\* and the other groups skipped.
Witness_C17 ==
    /\ Returned
    /\ form_type = "10-K"
    /\ Len(SelectSeq(analyses, LAMBDA a : a.kind = "header")) = 2
    /\ Len(Results) > 2

\* C18: every chunk the dispatcher passes to wait_if_needed has a token
\* cost of at most max_tokens_per_request - reserved_tokens.
Claim_C18 ==
    \A k \in 1..Len(calls) : calls[k].op = "wait" => calls[k].tokens <= Budget

\* ------------------------------------------------ the limiter on its own
MaxClock == 7
MaxRecords == 2

\* The scenario's limiter and calls, in units of ten tokens: a limiter built
\* with tokens_per_minute = 100 and the constructor's defaults, usage
\* records of 60 tokens made gap seconds apart, a request of 50 tokens.
Scenario ==
    [tokens_per_minute |-> 10, max_tokens_per_request |-> 200,
     reserved_tokens |-> 100, record |-> 6, request |-> 5, gap |-> 2]

\* a text of n tokens
Letters(n) == [i \in 1..n |-> "a"]

\* can_make_request(text) of the scenario's limiter
ApiCanMakeRequest(t, usage) ==
    LET tokens == count_tokens(t)
    IN  IF tokens <= Scenario.max_tokens_per_request - Scenario.reserved_tokens
        THEN LET g == AvailableTokens(Scenario.tokens_per_minute, usage)
             IN  [result |-> tokens <= g.available, usage |-> g.usage]
        ELSE [result |-> FALSE, usage |-> usage]

InitApi ==
    /\ now = 0
    /\ recorded = <<>>
    /\ answer = <<>>
    /\ IdleChunk
    /\ InitLimiter
    /\ IdleParse
    /\ IdleDispatch
    /\ IdleLedger
    /\ IdleWait

\* record_token_usage(n)
ApiRecord ==
    /\ Len(recorded) < MaxRecords
    /\ \E n \in {Scenario.record, Scenario.request} :
          /\ token_usage' = RecordTokenUsage(token_usage, n)
          /\ recorded' = Append(recorded, [time |-> now, tokens |-> n])
    /\ last_request_age' = 0
    /\ UNCHANGED <<now, answer, chunkVars, pc, remaining, chunkTok, availSeen,
                   sleepLeft, completed, parseVars, dispVars, ledgerVars, waitVars>>

\* can_make_request(text) for a text of n tokens
ApiAsk ==
    /\ \E n \in {1, Scenario.request} :
          LET c == ApiCanMakeRequest(Letters(n), token_usage)
          IN  /\ token_usage' = c.usage
              /\ answer' = <<[at |-> now, tokens |-> n, after |-> recorded,
                              result |-> c.result]>>
    /\ UNCHANGED <<now, recorded, chunkVars, last_request_age, pc, remaining,
                   chunkTok, availSeen, sleepLeft, completed, parseVars,
                   dispVars, ledgerVars, waitVars>>

\* one second passes
ApiTick ==
    /\ now < MaxClock
    /\ now' = now + 1
    /\ token_usage' = [i \in 1..Len(token_usage) |-> AgeOne(token_usage[i])]
    /\ last_request_age' = 1
    /\ UNCHANGED <<recorded, answer, chunkVars, pc, remaining, chunkTok,
                   availSeen, sleepLeft, completed, parseVars, dispVars, ledgerVars, waitVars>>

NextApi ==
    \/ ApiRecord
    \/ ApiAsk
    \/ ApiTick

SpecApi == InitApi /\ [][NextApi]_vars

\* ---------------------------------- properties of the limiter on its own
\* The last can_make_request call was the scenario's: a request of 50
\* tokens, after two records of 60 tokens made 2 seconds apart and nothing
\* else.
ScenarioAsked ==
    /\ answer # <<>>
    /\ answer[1].tokens = Scenario.request
    /\ Len(answer[1].after) = 2
    /\ answer[1].after[1].tokens = Scenario.record
    /\ answer[1].after[2].tokens = Scenario.record
    /\ answer[1].after[2].time = answer[1].after[1].time + Scenario.gap

\* C14 as stated: in the scenario can_make_request returns false until the
\* first record has aged past 60 seconds, and true from that moment on.
Claim_C14 ==
    ScenarioAsked =>
        LET age1 == answer[1].at - answer[1].after[1].time
        IN  /\ age1 < Window => ~answer[1].result
            /\ age1 > Window => answer[1].result

\* C14 amended: in the scenario can_make_request returns false until the
\* second record is 60 seconds old, and true from that moment on.
Theorem_C14 ==
    ScenarioAsked =>
        LET age2 == answer[1].at - answer[1].after[2].time
        IN  answer[1].result <=> age2 >= Window

\* C14 witness: the scenario's request is asked when the first record has
\* left the window and the second has not, and it is refused.
Witness_C14 ==
    /\ ScenarioAsked
    /\ answer[1].at - answer[1].after[1].time > Window
    /\ answer[1].at - answer[1].after[2].time < Window
    /\ ~answer[1].result

\* --------------------------------- the ledger between filter and assignment
\* can_make_request up to the list comprehension of get_available_tokens:
\* the size test, then the filtered list is built from self.token_usage
Filter(r) ==
    /\ pc[r] = "check"
    /\ IF count_tokens(Spaces(chunkTok[r])) <= Budget
       THEN /\ pruned' = [pruned EXCEPT ![r] = SelectSeq(token_usage, IsRecent)]
            /\ pc' = [pc EXCEPT ![r] = "assign"]
       ELSE /\ pc' = [pc EXCEPT ![r] = "backoff"]
            /\ UNCHANGED pruned
    /\ UNCHANGED <<chunkVars, parseVars, dispVars, apiVars, waitVars,
                   token_usage, last_request_age, remaining, chunkTok,
                   availSeen, sleepLeft, completed>>

\* get_available_tokens from the assignment on: self.token_usage = the
\* filtered list, the sum, the value returned, and can_make_request's answer
Assign(r) ==
    /\ pc[r] = "assign"
    /\ token_usage' = pruned[r]
    /\ LET available == Max(0, TokensPerMinute - SumTokens(pruned[r]))
       IN  /\ availSeen' = [availSeen EXCEPT ![r] = available]
           /\ pc' = [pc EXCEPT ![r] =
                       IF count_tokens(Spaces(chunkTok[r])) <= available
                       THEN "admitted" ELSE "backoff"]
    /\ pruned' = [pruned EXCEPT ![r] = <<>>]
    /\ UNCHANGED <<chunkVars, parseVars, dispVars, apiVars, waitVars,
                   last_request_age, remaining, chunkTok, sleepLeft, completed>>

\* one second passes: every timestamp, in the ledger and in a filtered list,
\* is one second older
LedgerTick ==
    /\ token_usage' = [i \in 1..Len(token_usage) |-> AgeOne(token_usage[i])]
    /\ pruned' = [r \in Requests |->
                    [i \in 1..Len(pruned[r]) |-> AgeOne(pruned[r][i])]]
    /\ last_request_age' = 1
    /\ sleepLeft' = [r \in Requests |-> Max(0, sleepLeft[r] - 1)]
    /\ UNCHANGED <<chunkVars, parseVars, dispVars, apiVars, waitVars, pc,
                   remaining, chunkTok, availSeen, completed>>

NextLedger ==
    \/ \E r \in Requests :
          \/ Begin(r)
          \/ TakeChunk(r)
          \/ Finish(r)
          \/ Filter(r)
          \/ Assign(r)
          \/ Backoff(r)
          \/ Wake(r)
          \/ Record(r)
          \/ Complete(r)
    \/ LedgerTick

SpecLedger == Init /\ [][NextLedger]_vars

\* a is b with some elements left out
RECURSIVE IsSubseq(_, _)
IsSubseq(a, b) ==
    IF Len(a) = 0 THEN TRUE
    ELSE IF Len(b) = 0 THEN FALSE
    ELSE IF Head(a) = Head(b) THEN IsSubseq(Tail(a), Tail(b))
    ELSE IsSubseq(a, Tail(b))

\* The records of the ledger younger than w seconds are in the ledger after
\* the step, in order, as they were or one second older.
Survive(w) ==
    LET young == Pick(token_usage, 1, w)
    IN  \/ IsSubseq(young, token_usage')
        \/ IsSubseq([i \in 1..Len(young) |-> AgeOne(young[i])], token_usage')

\* C21 as stated: a record stays in the ledger until it is older than 60
\* seconds, whatever the requests using the shared limiter do.
Claim_C21 == [][Survive(Window + 1)]_vars

\* C21 amended: a record stays in the ledger until it is 60 seconds old: no
\* step of any request discards a record younger than 60 seconds.
Theorem_C21 == [][Survive(Window)]_vars

\* C21 witness: a request's get_available_tokens has assigned the pruned
\* list while the record of another request's chunk was younger than 60
\* seconds, and the record is in the ledger.
Witness_C21 ==
    \E r \in Requests : \E q \in Requests \ {r} :
        /\ pc[r] = "admitted"
        /\ completed[r] = 0
        /\ completed[q] = 1
        /\ Len(token_usage) = 1
        /\ token_usage[1].age < Window

\* ------------------------------------------- wait_if_needed on any limiter
MaxTpm == 3
MaxPerRequest == 4
MaxLedger == 2

\* RateLimiter(tokens_per_minute, max_tokens_per_request): reserved_tokens
\* is set by the constructor
Configs ==
    [tokens_per_minute : 0..MaxTpm, max_tokens_per_request : 0..MaxPerRequest,
     reserved_tokens : {ReservedTokens}]

\* max_tokens_per_request - reserved_tokens of a limiter
BudgetOf(c) == c.max_tokens_per_request - c.reserved_tokens

\* The ledgers a wait_if_needed call can find.
RECURSIVE LedgersOfLen(_)
LedgersOfLen(n) ==
    IF n = 0 THEN {<<>>}
    ELSE {Append(u, e) : u \in LedgersOfLen(n - 1),
                         e \in [age : 0..Window, tokens : 1..MaxTpm]}

Ledgers == UNION {LedgersOfLen(n) : n \in 0..MaxLedger}

\* can_make_request(text) of a limiter constructed with c
ConfCanMakeRequest(c, t, usage) ==
    LET tokens == count_tokens(t)
    IN  IF tokens <= BudgetOf(c)
        THEN LET g == AvailableTokens(c.tokens_per_minute, usage)
             IN  [result |-> tokens <= g.available, usage |-> g.usage]
        ELSE [result |-> FALSE, usage |-> usage]

\* a limiter, its ledger, and a wait_if_needed(required_tokens) call
InitWait ==
    /\ config \in Configs
    /\ required \in 0..MaxPerRequest
    /\ token_usage \in Ledgers
    /\ wpc = "check"
    /\ last_request_age \in {0, 1}
    /\ pc = [r \in Requests |-> "pending"]
    /\ remaining = [r \in Requests |-> 0]
    /\ chunkTok = [r \in Requests |-> 0]
    /\ availSeen = [r \in Requests |-> TokensPerMinute]
    /\ sleepLeft = [r \in Requests |-> 0]
    /\ completed = [r \in Requests |-> 0]
    /\ IdleChunk
    /\ IdleParse
    /\ IdleDispatch
    /\ IdleApi
    /\ IdleLedger

\* while not self.can_make_request(" " * required_tokens): the probe is
\* accepted and wait_if_needed returns
WaitReturn ==
    /\ wpc = "check"
    /\ LET c == ConfCanMakeRequest(config, Spaces(required), token_usage)
       IN  /\ c.result
           /\ token_usage' = c.usage
    /\ wpc' = "returned"
    /\ UNCHANGED <<config, required, chunkVars, last_request_age, pc, remaining,
                   chunkTok, availSeen, sleepLeft, completed, parseVars,
                   dispVars, apiVars, ledgerVars>>

\* the probe is refused: the loop body is entered
WaitRefuse ==
    /\ wpc = "check"
    /\ LET c == ConfCanMakeRequest(config, Spaces(required), token_usage)
       IN  /\ ~c.result
           /\ token_usage' = c.usage
    /\ wpc' = "sleep"
    /\ UNCHANGED <<config, required, chunkVars, last_request_age, pc, remaining,
                   chunkTok, availSeen, sleepLeft, completed, parseVars,
                   dispVars, apiVars, ledgerVars>>

\* time.sleep(1 - time_since_last_request) or time.sleep(1): a second has
\* passed since the last request when the condition is evaluated again
WaitSleep ==
    /\ wpc = "sleep"
    /\ token_usage' = [i \in 1..Len(token_usage) |-> AgeOne(token_usage[i])]
    /\ last_request_age' = 1
    /\ wpc' = "check"
    /\ UNCHANGED <<config, required, chunkVars, pc, remaining, chunkTok,
                   availSeen, sleepLeft, completed, parseVars, dispVars,
                   apiVars, ledgerVars>>

NextWait ==
    \/ WaitReturn
    \/ WaitRefuse
    \/ WaitSleep

SpecWait == InitWait /\ [][NextWait]_vars

\* time advances and the loop runs
SpecWaitLive == SpecWait /\ WF_vars(NextWait)

\* C22: for every limiter configuration and every ledger, wait_if_needed
\* called with required_tokens <= max_tokens_per_request - reserved_tokens
\* eventually returns, no usage being recorded while it waits.
Claim_C22 == required <= BudgetOf(config) => <>(wpc = "returned")

\* ----------------------------------------------------------- the pipeline
Label3 == <<"3", ".">>
Label4 == <<"4", ".">>
Label5 == <<"5", ".">>
Label8 == <<"8", ".">>
Label9 == <<"9", ".">>
Label9A == <<"9", "A", ".">>
Label9B == <<"9", "B", ".">>
Label9C == <<"9", "C", ".">>
Label10 == <<"1", "0", ".">>
Label11 == <<"1", "1", ".">>
Label12 == <<"1", "2", ".">>
Label13 == <<"1", "3", ".">>
Label14 == <<"1", "4", ".">>
Label15 == <<"1", "5", ".">>
Label16 == <<"1", "6", ".">>
Label153 == <<"1", "5", "3", ".">>
LabelFiledStatus ==
    <<"F", "i", "l", "e", "d", " ", "S", "t", "a", "t", "u", "s">>
LabelIncorporation ==
    <<"I", "n", "c", "o", "r", "p", "o", "r", "a", "t", "i", "o", "n", " ",
      "b", "y", " ", "R", "e", "f", "e", "r", "e", "n", "c", "e">>

\* section_config["10-K"] and section_config["10-Q"]
SectionConfig(ft) ==
    IF ft = "10-K"
    THEN <<Label1, Label1A, Label1B, Label1C, Label2, Label3, Label4, Label5,
           Label6, Label7, Label7A, Label8, Label9, Label9A, Label9B, Label9C,
           Label10, Label11, Label12, Label13, Label14, Label15, Label16,
           Label153>>
    ELSE <<LabelFiledStatus, LabelIncorporation>>

\* section_definition == "all": "8-K" and every form type without an entry
ParsedBySize(ft) == ft \notin {"10-K", "10-Q"}

\* a filing of some form type and its document
InitFetch ==
    /\ form_type \in FormTypes
    /\ doc \in Docs
    /\ labels = <<>>
    /\ ppc = "input"
    /\ walk = <<>>
    /\ result = <<>>
    /\ sections = <<>>
    /\ dpc = "idle"
    /\ group = 0
    /\ gchunks = <<>>
    /\ idx = 0
    /\ chunk_analyses = <<>>
    /\ analyses = <<>>
    /\ calls = <<>>
    /\ IdleChunk
    /\ InitLimiter
    /\ IdleApi
    /\ IdleLedger
    /\ IdleWait

\* fetch_analysis from the choice of the section definition to the call of
\* analyze_document_content: the sections are the document's whole text in
\* token slices under "content", or what parse_sec_document returns for the
\* form type's labels. text_elements are taken to be the document's texts.
Fetch ==
    /\ ppc = "input"
    /\ dpc = "idle"
    /\ IF ParsedBySize(form_type)
       THEN /\ sections' =
                  <<[key |-> ContentKey,
                     value |-> split_into_token_chunks(
                                  clean_content([k \in 1..Len(Nodes(doc)) |->
                                                    Nodes(doc)[k].text]),
                                  ParseMaxTokens)]>>
            /\ UNCHANGED <<labels, walk, result>>
       ELSE /\ labels' = SectionConfig(form_type)
            /\ walk' = Walk(doc, SectionConfig(form_type))
            /\ result' = parse_sec_document(doc, SectionConfig(form_type))
            /\ sections' = parse_sec_document(doc, SectionConfig(form_type))
    /\ ppc' = "parsed"
    /\ dpc' = "start"
    /\ UNCHANGED <<doc, form_type, group, gchunks, idx, chunk_analyses,
                   analyses, calls, chunkVars, limiterVars, apiVars,
                   ledgerVars, waitVars>>

NextFetch ==
    \/ Fetch
    \/ NextDispatch

SpecFetch == InitFetch /\ [][NextFetch]_vars

\* C23: for 10-K and 10-Q, every section label listed in one of the
\* dispatcher's groups is one of the labels the extractor is configured with
\* for that form type, so it is a key of the sections the dispatcher gets.
Claim_C23 ==
    (ppc = "parsed" /\ Grouped) =>
        \A n \in 1..Len(SectionGroups(form_type)) :
            \A k \in 1..Len(SectionGroups(form_type)[n].keys) :
                /\ \E i \in 1..Len(SectionConfig(form_type)) :
                      SectionConfig(form_type)[i] = SectionGroups(form_type)[n].keys[k]
                /\ HasKey(sections, SectionGroups(form_type)[n].keys[k])

====
